---- MODULE Spec2Model ----
(***************************************************************************)
(* BatPU-2 emulator: the BatPU2 core of simulator.py (reset, load_mc,      *)
(* decode, execute_one, _read_port, _write_port, run) and the handlers of  *)
(* simulator_gui.py that drive the process-wide core (load_program, step,  *)
(* run_program, reset).                                                    *)
(*                                                                         *)
(* The core object is the record cpu, one field per attribute of BatPU2.   *)
(* Python lists are 0-based: registers, memory and screen are functions    *)
(* over 0..n-1; program, call_stack and char_buffer are sequences, so      *)
(* program[pc] of the source is cpu.program[cpu.pc + 1] here.              *)
(* Characters of char_buffer are represented by their code points.         *)
(* number_display is << >> for None and << v >> for the int v.             *)
(***************************************************************************)
EXTENDS Integers, Sequences, FiniteSets, TLC

\* ---------------------------------------------------------------- bounds
\* Step and run_program stop being offered once this many instructions retired.
MaxCount == 18
\* run(max_instructions) and run_program(max) are called with 1..MaxBudget.
MaxBudget == 2
\* load_mc() is called at most this many times between two resets.
MaxLoads == 1
\* The images that drive the number display write at most this many ports.
MaxPortOps == 3

\* ------------------------------------------------------ program constants
NumRegs == 16
MemSize == 256
ScreenSize == 32
StackLimit == 16
PortBase == 240

\* The bytes random.randint(0, 255) is sampled at.
RngBytes == {0, 255}

\* ------------------------------------------------------------ bit helpers
RECURSIVE BitAnd(_, _, _)
BitAnd(a, b, n) ==
    IF n = 0 THEN 0
    ELSE ((a % 2) * (b % 2)) + 2 * BitAnd(a \div 2, b \div 2, n - 1)

RECURSIVE BitOr(_, _, _)
BitOr(a, b, n) ==
    IF n = 0 THEN 0
    ELSE (IF (a % 2) + (b % 2) > 0 THEN 1 ELSE 0)
         + 2 * BitOr(a \div 2, b \div 2, n - 1)

RECURSIVE BitXor(_, _, _)
BitXor(a, b, n) ==
    IF n = 0 THEN 0
    ELSE (((a % 2) + (b % 2)) % 2) + 2 * BitXor(a \div 2, b \div 2, n - 1)

\* x & 0xFF for a Python int x >= -256 (two's complement low byte).
Low8(x) == (x + 256) % 256

\* ------------------------------------------------------------ BatPU2 core
\* __init__: the state after construction.
InitCPU ==
    [ registers         |-> [r \in 0..(NumRegs - 1) |-> 0],
      memory            |-> [a \in 0..(MemSize - 1) |-> 0],
      program           |-> << >>,
      pc                |-> 0,
      zero_flag         |-> FALSE,
      carry_flag        |-> FALSE,
      call_stack        |-> << >>,
      halted            |-> FALSE,
      instruction_count |-> 0,
      screen            |-> [y \in 0..(ScreenSize - 1) |->
                                [x \in 0..(ScreenSize - 1) |-> 0]],
      pixel_x           |-> 0,
      pixel_y           |-> 0,
      char_buffer       |-> << >>,
      number_display    |-> << >>,
      signed_mode       |-> FALSE ]

\* reset(): a variant that omits "self.halted = False".
reset_keeps_halted(s) ==
    [s EXCEPT !.registers         = [r \in 0..(NumRegs - 1) |-> 0],
              !.memory            = [a \in 0..(MemSize - 1) |-> 0],
              !.pc                = 0,
              !.zero_flag         = FALSE,
              !.carry_flag        = FALSE,
              !.call_stack        = << >>,
              !.instruction_count = 0,
              !.screen            = [y \in 0..(ScreenSize - 1) |->
                                        [x \in 0..(ScreenSize - 1) |-> 0]],
              !.pixel_x           = 0,
              !.pixel_y           = 0,
              !.char_buffer       = << >>,
              !.number_display    = << >>,
              !.signed_mode       = FALSE]

\* reset(): assigns every attribute but program.
reset(s) ==
    [s EXCEPT !.registers         = [r \in 0..(NumRegs - 1) |-> 0],
              !.memory            = [a \in 0..(MemSize - 1) |-> 0],
              !.pc                = 0,
              !.zero_flag         = FALSE,
              !.carry_flag        = FALSE,
              !.call_stack        = << >>,
              !.halted            = FALSE,
              !.instruction_count = 0,
              !.screen            = [y \in 0..(ScreenSize - 1) |->
                                        [x \in 0..(ScreenSize - 1) |-> 0]],
              !.pixel_x           = 0,
              !.pixel_y           = 0,
              !.char_buffer       = << >>,
              !.number_display    = << >>,
              !.signed_mode       = FALSE]

\* load_mc(): program is replaced by the words of the file; nothing else
\* is assigned.
load_mc(s, words) ==
    [s EXCEPT !.program = words]

\* decode(): the fields of a 16-bit word.
\* decode(): a variant whose 4-bit offset is not sign-extended.
decode_offset_unsigned(instruction) ==
    LET imm == instruction % 256
    IN  [ opcode      |-> (instruction \div 4096) % 16,
          reg_a       |-> (instruction \div 256) % 16,
          reg_b       |-> (instruction \div 16) % 16,
          reg_c       |-> instruction % 16,
          imm8        |-> imm,
          imm8_signed |-> IF imm < 128 THEN imm ELSE imm - 256,
          imm10       |-> instruction % 1024,
          condition   |-> (instruction \div 1024) % 4,
          offset      |-> instruction % 16 ]

decode(instruction) ==
    LET off4 == instruction % 16
        imm  == instruction % 256
    IN  [ opcode      |-> (instruction \div 4096) % 16,
          reg_a       |-> (instruction \div 256) % 16,
          reg_b       |-> (instruction \div 16) % 16,
          reg_c       |-> instruction % 16,
          imm8        |-> imm,
          imm8_signed |-> IF imm < 128 THEN imm ELSE imm - 256,
          imm10       |-> instruction % 1024,
          condition   |-> (instruction \div 1024) % 4,
          offset      |-> IF off4 >= 8 THEN off4 - 16 ELSE off4 ]

\* "if d[reg] != 0: self.registers[d[reg]] = value"
write_reg(s, r, v) ==
    IF r # 0 THEN [s EXCEPT !.registers[r] = v] ELSE s

\* ----------------------------------------------------------------- ports
\* _read_port(): a variant whose unmapped ports return what the bus holds.
read_port_floating_bus(s, port, rnd) ==
    LET port_name == port - PortBase
    IN  IF port_name = 4
        THEN s.screen[s.pixel_y % ScreenSize][s.pixel_x % ScreenSize]
        ELSE rnd

\* _read_port(): a variant whose controller_input reads all lines high.
read_port_controller_high(s, port, rnd) ==
    LET port_name == port - PortBase
    IN  IF port_name = 4
        THEN s.screen[s.pixel_y % ScreenSize][s.pixel_x % ScreenSize]
        ELSE IF port_name = 14 THEN rnd
        ELSE IF port_name = 15 THEN 255
        ELSE 0

\* _read_port(): rnd is the byte random.randint(0, 255) returns if called.
read_port(s, port, rnd) ==
    LET port_name == port - PortBase
    IN  IF port_name = 4
        THEN s.screen[s.pixel_y % ScreenSize][s.pixel_x % ScreenSize]
        ELSE IF port_name = 14 THEN rnd
        ELSE 0

\* The chars table of write_char, as code points:
\* [' ', 'a'..'z', '.', '!', '?'].
chars ==
    << 32 >> \o [i \in 1..26 |-> 96 + i] \o << 46, 33, 63 >>

\* _write_port(): a variant that reduces the cursor modulo 32 when it is set.
write_port_wraps_cursor(s, port, value) ==
    LET port_name == port - PortBase
        x == s.pixel_x % ScreenSize
        y == s.pixel_y % ScreenSize
    IN  CASE port_name = 0 -> [s EXCEPT !.pixel_x = value % ScreenSize]
          [] port_name = 1 -> [s EXCEPT !.pixel_y = value % ScreenSize]
          [] port_name = 2 -> [s EXCEPT !.screen[y][x] = 1]
          [] port_name = 3 -> [s EXCEPT !.screen[y][x] = 0]
          [] port_name = 7 ->
                IF 0 <= value /\ value < Len(chars)
                THEN [s EXCEPT !.char_buffer = Append(@, chars[value + 1])]
                ELSE IF 32 <= value /\ value <= 126
                THEN [s EXCEPT !.char_buffer = Append(@, value)]
                ELSE [s EXCEPT !.char_buffer = Append(@, 63)]
          [] port_name = 10 ->
                IF s.signed_mode /\ value >= 128
                THEN [s EXCEPT !.number_display = << value - 256 >>]
                ELSE [s EXCEPT !.number_display = << value >>]
          [] port_name = 11 -> [s EXCEPT !.number_display = << >>]
          [] port_name = 12 -> [s EXCEPT !.signed_mode = TRUE]
          [] port_name = 13 -> [s EXCEPT !.signed_mode = FALSE]
          [] OTHER -> s

\* _write_port(): a variant that indexes the framebuffer [x][y].
write_port_swaps_xy(s, port, value) ==
    LET port_name == port - PortBase
        x == s.pixel_x % ScreenSize
        y == s.pixel_y % ScreenSize
    IN  CASE port_name = 0 -> [s EXCEPT !.pixel_x = value]
          [] port_name = 1 -> [s EXCEPT !.pixel_y = value]
          [] port_name = 2 -> [s EXCEPT !.screen[x][y] = 1]
          [] port_name = 3 -> [s EXCEPT !.screen[x][y] = 0]
          [] port_name = 7 ->
                IF 0 <= value /\ value < Len(chars)
                THEN [s EXCEPT !.char_buffer = Append(@, chars[value + 1])]
                ELSE IF 32 <= value /\ value <= 126
                THEN [s EXCEPT !.char_buffer = Append(@, value)]
                ELSE [s EXCEPT !.char_buffer = Append(@, 63)]
          [] port_name = 10 ->
                IF s.signed_mode /\ value >= 128
                THEN [s EXCEPT !.number_display = << value - 256 >>]
                ELSE [s EXCEPT !.number_display = << value >>]
          [] port_name = 11 -> [s EXCEPT !.number_display = << >>]
          [] port_name = 12 -> [s EXCEPT !.signed_mode = TRUE]
          [] port_name = 13 -> [s EXCEPT !.signed_mode = FALSE]
          [] OTHER -> s

\* _write_port(): a variant whose ASCII range includes 127.
write_port_ascii_to_127(s, port, value) ==
    LET port_name == port - PortBase
        x == s.pixel_x % ScreenSize
        y == s.pixel_y % ScreenSize
    IN  CASE port_name = 0 -> [s EXCEPT !.pixel_x = value]
          [] port_name = 1 -> [s EXCEPT !.pixel_y = value]
          [] port_name = 2 -> [s EXCEPT !.screen[y][x] = 1]
          [] port_name = 3 -> [s EXCEPT !.screen[y][x] = 0]
          [] port_name = 7 ->
                IF 0 <= value /\ value < Len(chars)
                THEN [s EXCEPT !.char_buffer = Append(@, chars[value + 1])]
                ELSE IF 32 <= value /\ value <= 127
                THEN [s EXCEPT !.char_buffer = Append(@, value)]
                ELSE [s EXCEPT !.char_buffer = Append(@, 63)]
          [] port_name = 10 ->
                IF s.signed_mode /\ value >= 128
                THEN [s EXCEPT !.number_display = << value - 256 >>]
                ELSE [s EXCEPT !.number_display = << value >>]
          [] port_name = 11 -> [s EXCEPT !.number_display = << >>]
          [] port_name = 12 -> [s EXCEPT !.signed_mode = TRUE]
          [] port_name = 13 -> [s EXCEPT !.signed_mode = FALSE]
          [] OTHER -> s

\* _write_port()
write_port(s, port, value) ==
    LET port_name == port - PortBase
        x == s.pixel_x % ScreenSize
        y == s.pixel_y % ScreenSize
    IN  CASE port_name = 0 -> [s EXCEPT !.pixel_x = value]
          [] port_name = 1 -> [s EXCEPT !.pixel_y = value]
          [] port_name = 2 -> [s EXCEPT !.screen[y][x] = 1]
          [] port_name = 3 -> [s EXCEPT !.screen[y][x] = 0]
          [] port_name = 7 ->
                IF 0 <= value /\ value < Len(chars)
                THEN [s EXCEPT !.char_buffer = Append(@, chars[value + 1])]
                ELSE IF 32 <= value /\ value <= 126
                THEN [s EXCEPT !.char_buffer = Append(@, value)]
                ELSE [s EXCEPT !.char_buffer = Append(@, 63)]
          [] port_name = 10 ->
                IF s.signed_mode /\ value >= 128
                THEN [s EXCEPT !.number_display = << value - 256 >>]
                ELSE [s EXCEPT !.number_display = << value >>]
          [] port_name = 11 -> [s EXCEPT !.number_display = << >>]
          [] port_name = 12 -> [s EXCEPT !.signed_mode = TRUE]
          [] port_name = 13 -> [s EXCEPT !.signed_mode = FALSE]
          [] OTHER -> s

\* ----------------------------------------------- execute_one, per opcode
\* Each operator gives the state the opcode's branch leaves and next_pc.
\* "next_pc = self.pc + 1"
pc_plus_1(s) == s.pc + 1

\* NOP: a variant that also clears the flags.
exec_nop_clears_flags(s, d) ==
    [state |-> [s EXCEPT !.zero_flag = FALSE, !.carry_flag = FALSE],
     next_pc |-> pc_plus_1(s)]

exec_nop(s, d) == [state |-> s, next_pc |-> pc_plus_1(s)]

exec_add(s, d) ==
    LET result == s.registers[d.reg_a] + s.registers[d.reg_b]
        low    == Low8(result)
        t      == [s EXCEPT !.carry_flag = (result > 255),
                            !.zero_flag = (low = 0)]
    IN  [state |-> write_reg(t, d.reg_c, low), next_pc |-> pc_plus_1(s)]

\* SUB: a variant whose carry test is strict (result > 0).
exec_sub_strict_carry(s, d) ==
    LET result == s.registers[d.reg_a] - s.registers[d.reg_b]
        low    == Low8(result)
        t      == [s EXCEPT !.carry_flag = (result > 0),
                            !.zero_flag = (low = 0)]
    IN  [state |-> write_reg(t, d.reg_c, low), next_pc |-> pc_plus_1(s)]

exec_sub(s, d) ==
    LET result == s.registers[d.reg_a] - s.registers[d.reg_b]
        low    == Low8(result)
        t      == [s EXCEPT !.carry_flag = (result >= 0),
                            !.zero_flag = (low = 0)]
    IN  [state |-> write_reg(t, d.reg_c, low), next_pc |-> pc_plus_1(s)]

exec_nor(s, d) ==
    LET result == 255 - BitOr(s.registers[d.reg_a], s.registers[d.reg_b], 8)
        t      == [s EXCEPT !.zero_flag = (result = 0)]
    IN  [state |-> write_reg(t, d.reg_c, result), next_pc |-> pc_plus_1(s)]

exec_and(s, d) ==
    LET result == BitAnd(s.registers[d.reg_a], s.registers[d.reg_b], 8)
        t      == [s EXCEPT !.zero_flag = (result = 0)]
    IN  [state |-> write_reg(t, d.reg_c, result), next_pc |-> pc_plus_1(s)]

exec_xor(s, d) ==
    LET result == BitXor(s.registers[d.reg_a], s.registers[d.reg_b], 8)
        t      == [s EXCEPT !.zero_flag = (result = 0)]
    IN  [state |-> write_reg(t, d.reg_c, result), next_pc |-> pc_plus_1(s)]

\* carry_flag is assigned the int registers[a] & 1; Python compares 1 and 0
\* equal to True and False, so the flag is the truth value here.
exec_rsh(s, d) ==
    LET result == s.registers[d.reg_a] \div 2
        t      == [s EXCEPT !.carry_flag = (s.registers[d.reg_a] % 2 = 1),
                            !.zero_flag = (result = 0)]
    IN  [state |-> write_reg(t, d.reg_c, result), next_pc |-> pc_plus_1(s)]

\* LDI: a variant that sets the Zero flag from the immediate.
exec_ldi_sets_zero(s, d) ==
    [state |-> write_reg([s EXCEPT !.zero_flag = (d.imm8 = 0)],
                         d.reg_a, d.imm8),
     next_pc |-> pc_plus_1(s)]

exec_ldi(s, d) ==
    [state |-> write_reg(s, d.reg_a, d.imm8), next_pc |-> pc_plus_1(s)]

\* ADI: a variant that never clears a Carry already set.
exec_adi_keeps_carry(s, d) ==
    LET result == s.registers[d.reg_a] + d.imm8_signed
        low    == Low8(result)
        t      == [s EXCEPT !.carry_flag =
                                (s.carry_flag \/ result > 255 \/ result < 0),
                            !.zero_flag = (low = 0)]
    IN  [state |-> write_reg(t, d.reg_a, low), next_pc |-> pc_plus_1(s)]

exec_adi(s, d) ==
    LET result == s.registers[d.reg_a] + d.imm8_signed
        low    == Low8(result)
        t      == [s EXCEPT !.carry_flag = (result > 255 \/ result < 0),
                            !.zero_flag = (low = 0)]
    IN  [state |-> write_reg(t, d.reg_a, low), next_pc |-> pc_plus_1(s)]

exec_jmp(s, d) == [state |-> s, next_pc |-> d.imm10]

\* BRH: a variant with the Zero and Carry conditions exchanged.
exec_brh_carry_first(s, d) ==
    LET should_branch ==
            CASE d.condition = 0 -> s.carry_flag
              [] d.condition = 1 -> ~s.carry_flag
              [] d.condition = 2 -> s.zero_flag
              [] d.condition = 3 -> ~s.zero_flag
    IN  [state |-> s, next_pc |-> IF should_branch THEN d.imm10 ELSE pc_plus_1(s)]

exec_brh(s, d) ==
    LET should_branch ==
            CASE d.condition = 0 -> s.zero_flag
              [] d.condition = 1 -> ~s.zero_flag
              [] d.condition = 2 -> s.carry_flag
              [] d.condition = 3 -> ~s.carry_flag
    IN  [state |-> s, next_pc |-> IF should_branch THEN d.imm10 ELSE pc_plus_1(s)]

\* CAL: a variant that transfers to imm10 even when the stack is full.
exec_cal_jumps_on_overflow(s, d) ==
    IF Len(s.call_stack) < StackLimit
    THEN [state |-> [s EXCEPT !.call_stack = Append(@, s.pc + 1)],
          next_pc |-> d.imm10]
    ELSE [state |-> s, next_pc |-> d.imm10]

\* CAL: a variant whose depth test admits one entry too many.
exec_cal_off_by_one(s, d) ==
    IF Len(s.call_stack) <= StackLimit
    THEN [state |-> [s EXCEPT !.call_stack = Append(@, s.pc + 1)],
          next_pc |-> d.imm10]
    ELSE [state |-> s, next_pc |-> pc_plus_1(s)]

exec_cal(s, d) ==
    IF Len(s.call_stack) < StackLimit
    THEN [state |-> [s EXCEPT !.call_stack = Append(@, s.pc + 1)],
          next_pc |-> d.imm10]
    ELSE [state |-> s, next_pc |-> pc_plus_1(s)]

exec_ret(s, d) ==
    IF s.call_stack # << >>
    THEN [state |-> [s EXCEPT !.call_stack =
                        SubSeq(@, 1, Len(@) - 1)],
          next_pc |-> s.call_stack[Len(s.call_stack)]]
    ELSE [state |-> s, next_pc |-> pc_plus_1(s)]

exec_lod(s, d, rnd) ==
    LET addr  == Low8(s.registers[d.reg_b] + d.offset)
        value == IF addr >= PortBase THEN read_port(s, addr, rnd)
                 ELSE s.memory[addr]
    IN  [state |-> write_reg(s, d.reg_a, value), next_pc |-> pc_plus_1(s)]

\* STR: a variant with LOD's operand roles (base Rb, value Ra).
exec_str_base_rb(s, d) ==
    LET addr  == Low8(s.registers[d.reg_b] + d.offset)
        value == s.registers[d.reg_a]
    IN  [state |-> IF addr >= PortBase THEN write_port(s, addr, value)
                   ELSE [s EXCEPT !.memory[addr] = value],
         next_pc |-> pc_plus_1(s)]

exec_str(s, d) ==
    LET addr  == Low8(s.registers[d.reg_a] + d.offset)
        value == s.registers[d.reg_b]
    IN  [state |-> IF addr >= PortBase THEN write_port(s, addr, value)
                   ELSE [s EXCEPT !.memory[addr] = value],
         next_pc |-> pc_plus_1(s)]

\* The if/elif chain over opcode, HLT excepted (it returns early).
dispatch(s, d, rnd) ==
    CASE d.opcode = 0  -> exec_nop(s, d)
      [] d.opcode = 2  -> exec_add(s, d)
      [] d.opcode = 3  -> exec_sub(s, d)
      [] d.opcode = 4  -> exec_nor(s, d)
      [] d.opcode = 5  -> exec_and(s, d)
      [] d.opcode = 6  -> exec_xor(s, d)
      [] d.opcode = 7  -> exec_rsh(s, d)
      [] d.opcode = 8  -> exec_ldi(s, d)
      [] d.opcode = 9  -> exec_adi(s, d)
      [] d.opcode = 10 -> exec_jmp(s, d)
      [] d.opcode = 11 -> exec_brh(s, d)
      [] d.opcode = 12 -> exec_cal(s, d)
      [] d.opcode = 13 -> exec_ret(s, d)
      [] d.opcode = 14 -> exec_lod(s, d, rnd)
      [] d.opcode = 15 -> exec_str(s, d)

\* The tail of execute_one: a variant whose last assignment stores the new
\* pc's low byte in cell 0 instead of 0.
commit_clobbers_r0(r) ==
    [r.state EXCEPT !.pc = r.next_pc,
                    !.instruction_count = @ + 1,
                    !.registers[0] = r.next_pc % 256]

\* The tail of execute_one: pc = next_pc, instruction_count += 1,
\* registers[0] = 0.
commit(r) ==
    [r.state EXCEPT !.pc = r.next_pc,
                    !.instruction_count = @ + 1,
                    !.registers[0] = 0]

\* The entry test of execute_one: a variant that counts the refused step.
refuse_counts(s) ==
    [state |-> [s EXCEPT !.halted = TRUE, !.instruction_count = @ + 1],
     ret |-> FALSE]

\* "if self.halted or self.pc >= len(self.program):
\*      self.halted = True; return False"
refuse(s) ==
    [state |-> [s EXCEPT !.halted = TRUE], ret |-> FALSE]

\* execute_one(): a variant in which HLT increments instruction_count
\* before the core stops.
execute_one_counts_hlt(s, rnd) ==
    IF s.halted \/ s.pc >= Len(s.program)
    THEN refuse(s)
    ELSE LET d  == decode(s.program[s.pc + 1])
             s1 == [s EXCEPT !.registers[0] = 0]
         IN  IF d.opcode = 1
             THEN [state |-> [s1 EXCEPT !.halted = TRUE,
                                        !.instruction_count = @ + 1],
                   ret |-> FALSE]
             ELSE [state |-> commit(dispatch(s1, d, rnd)), ret |-> TRUE]

\* execute_one(): the state it leaves and the value it returns.
execute_one(s, rnd) ==
    IF s.halted \/ s.pc >= Len(s.program)
    THEN refuse(s)
    ELSE LET d  == decode(s.program[s.pc + 1])
             s1 == [s EXCEPT !.registers[0] = 0]
         IN  IF d.opcode = 1
             THEN [state |-> [s1 EXCEPT !.halted = TRUE], ret |-> FALSE]
             ELSE [state |-> commit(dispatch(s1, d, rnd)), ret |-> TRUE]

\* run(): the while loop; stream[i] is the byte the RNG returns to the
\* i-th execute_one of this call.
RECURSIVE run_loop(_, _, _, _)
run_loop(s, max_instructions, stream, i) ==
    IF s.instruction_count < max_instructions
    THEN LET r == execute_one(s, stream[i])
         IN  IF ~r.ret THEN r.state
             ELSE run_loop(r.state, max_instructions, stream, i + 1)
    ELSE s

\* run(): the state it leaves, and whether it printed
\* "Stopped after N instructions (possible infinite loop)".
run(s, max_instructions, stream) ==
    LET t == run_loop(s, max_instructions, stream, 1)
    IN  [state |-> t, warned |-> (t.instruction_count >= max_instructions)]

\* ------------------------------------------- simulator_gui.py handlers
\* load_program(), when assemble() succeeds: cpu.reset(); cpu.load_mc().
gui_load_program(s, words) == load_mc(reset(s), words)

\* step(): execute_one() only if not halted and pc inside the program.
gui_step(s, rnd) ==
    IF ~s.halted /\ s.pc < Len(s.program)
    THEN execute_one(s, rnd).state
    ELSE s

\* run_program(): the while loop over its own count.
RECURSIVE gui_run_loop(_, _, _, _)
gui_run_loop(s, max_instr, count, stream) ==
    IF count < max_instr /\ ~s.halted /\ s.pc < Len(s.program)
    THEN gui_run_loop(execute_one(s, stream[count + 1]).state,
                      max_instr, count + 1, stream)
    ELSE s

gui_run_program(s, max_instr, stream) == gui_run_loop(s, max_instr, 0, stream)

\* reset(): program = cpu.program.copy(); cpu.reset(); cpu.program = program.
gui_reset(s) == [reset(s) EXCEPT !.program = s.program]

\* ------------------------------------------------------- program images
\* Machine words as the assembler lays them out (the fields decode() reads).
Enc(opcode, a, b, c) == opcode * 4096 + a * 256 + b * 16 + c
EncImm10(opcode, imm10) == opcode * 4096 + imm10

NOP == Enc(0, 0, 0, 0)
HLT == Enc(1, 0, 0, 0)
ADD(a, b, c) == Enc(2, a, b, c)
SUB(a, b, c) == Enc(3, a, b, c)
NOR(a, b, c) == Enc(4, a, b, c)
AND(a, b, c) == Enc(5, a, b, c)
XOR(a, b, c) == Enc(6, a, b, c)
RSH(a, c) == Enc(7, a, 0, c)
LDI(a, imm8) == Enc(8, a, imm8 \div 16, imm8 % 16)
ADI(a, imm) == Enc(9, a, Low8(imm) \div 16, Low8(imm) % 16)
JMP(addr) == EncImm10(10, addr)
BRH(cond, addr) == EncImm10(11, cond * 1024 + addr)
CAL(addr) == EncImm10(12, addr)
RET == Enc(13, 0, 0, 0)
LOD(a, b, off) == Enc(14, a, b, (off + 16) % 16)
STR(a, b, off) == Enc(15, a, b, (off + 16) % 16)

\* "1024 instructions max"
MaxProgram == 1024

\* Scenario S4 of the specification: call and return.
ProgCallRet == << CAL(3), HLT, HLT, LDI(1, 42), RET >>
\* Unbounded recursion: does not halt before the stack is full.
ProgRecurse == << CAL(0), RET >>
\* A full image whose last word does not transfer control.
ProgTop == [i \in 1..MaxProgram |-> IF i = 1 THEN JMP(MaxProgram - 1) ELSE NOP]
\* LDI, ADD, ADI and LOD naming r0 as destination.
ProgR0 == << LDI(1, 200), LDI(0, 9), ADD(1, 1, 0), ADI(0, 5),
             STR(0, 1, 3), LOD(0, 0, 3), HLT >>
\* RET with nothing to return to, then halt.
ProgUnderflow == << RET, HLT >>

Programs ==
    { ProgCallRet, ProgRecurse, ProgTop, ProgR0, ProgUnderflow }

\* ---------------------------------- images given on the command line
\* Register values the images load before the instruction under study.
Operands == {0, 1, 128, 255}
\* The 4-bit offsets of LOD and STR.
Offsets == -8..7
\* A base from which the offsets reach every port, 240..255.
PortWindow == PortBase + 8

\* The instruction placed after the flags have been set.
SecondWords ==
    { NOP, ADD(1, 2, 4), SUB(1, 2, 4), SUB(1, 2, 0), NOR(1, 2, 4),
      AND(1, 2, 4), XOR(1, 2, 4), RSH(1, 4), LDI(4, 0), LDI(4, 9),
      ADI(1, 0), ADI(1, 1), ADI(1, -1), ADI(3, 0), JMP(7), CAL(7), RET }
    \cup { BRH(c, 7) : c \in 0..3 }
    \cup { LOD(4, 5, off) : off \in Offsets }
    \cup { LOD(2, 5, off) : off \in Offsets }
    \cup { STR(5, 2, off) : off \in Offsets }
    \cup { LOD(4, 1, off) : off \in {-8, -1, 0, 7} }
    \cup { STR(1, 2, off) : off \in {-8, -1, 0, 7} }

\* r1 = x, r2 = y, r5 = 248; ADD r1, r2, r3 sets both flags; then w.
FlagThen(x, y, w) ==
    << LDI(1, x), LDI(2, y), LDI(5, PortWindow), ADD(1, 2, 3), w, HLT >>

\* Store r2 at r1 + off, load r3 from the same address.
AddrBases == {0, 1, 239, 247, 255}
StoreLoad(x, y, off) ==
    << LDI(1, x), LDI(2, y), STR(1, 2, off), LOD(3, 1, off), HLT >>

\* Writes of v to the ports show_number (10), clear_number (11),
\* signed_mode (12) and unsigned_mode (13), in the order seq gives.
NumberPorts == {10, 11, 12, 13}
NumberProg(v, seq) ==
    << LDI(5, PortWindow), LDI(2, v) >>
    \o [i \in 1..Len(seq) |-> STR(5, 2, seq[i] - 8)]
    \o << HLT >>

\* Cursor (x, y): draw, read back; cursor (y, y): draw; cursor (x, y):
\* clear, read back.
Cursors == {0, 3, 5, 31, 32, 255}
PixelProg(x, y) ==
    << LDI(5, PortWindow), LDI(1, x), LDI(2, y),
       STR(5, 1, -8), STR(5, 2, -7), STR(5, 2, -6), LOD(3, 5, -4),
       STR(5, 2, -8), STR(5, 1, -6),
       STR(5, 1, -8), STR(5, 1, -5), LOD(4, 5, -4), HLT >>

\* Scenario S3 of the specification: branch if zero.
ProgBranchIfZero ==
    << LDI(1, 5), LDI(2, 5), SUB(1, 2, 3), BRH(0, 6),
       LDI(4, 99), HLT, LDI(5, 77), HLT >>

\* Bytes written to write_char: the table, the ASCII range and their edges.
CharValues == {0, 1, 26, 27, 28, 29, 30, 31, 32, 65, 126, 127, 128, 255}

\* r5 = 248, r2 = v; v to write_char (port 7).
CharProg(v) ==
    << LDI(5, PortWindow), LDI(2, v), STR(5, 2, -1), HLT >>

\* The values 8, 5, 12, 12, 15 written to port 7, then HLT.
ProgHello ==
    << LDI(5, PortWindow),
       LDI(2, 8), STR(5, 2, -1),
       LDI(2, 5), STR(5, 2, -1),
       LDI(2, 12), STR(5, 2, -1), STR(5, 2, -1),
       LDI(2, 15), STR(5, 2, -1),
       HLT >>

CliPrograms ==
    { FlagThen(x, y, w) : x \in Operands, y \in Operands, w \in SecondWords }
    \cup { StoreLoad(x, y, off) :
              x \in AddrBases, y \in {1, 255}, off \in {-8, -1, 0, 7} }
    \cup { NumberProg(v, seq) :
              v \in {127, 128, 255},
              seq \in UNION { [1..n -> NumberPorts] : n \in 1..MaxPortOps } }
    \cup { PixelProg(x, y) : x \in Cursors, y \in Cursors }
    \cup { ProgBranchIfZero }
    \cup { CharProg(v) : v \in CharValues }
    \cup { ProgHello }

Budgets == 1..MaxBudget

\* random.randint() is called only by a LOD whose address is port 14: the
\* bytes it may return are an input of such a step alone.
reads_rng(s) ==
    /\ ~s.halted
    /\ s.pc < Len(s.program)
    /\ LET d == decode(s.program[s.pc + 1])
       IN  /\ d.opcode = 14
           /\ Low8(s.registers[d.reg_b] + d.offset) = PortBase + 14

RngChoices(s) == IF reads_rng(s) THEN RngBytes ELSE {0}

\* The bytes the RNG may return to the execute_one calls of one run.
RngStreams(n) == [1..n -> RngBytes]

\* Whether some execute_one of run(max_instructions) from s calls the RNG
\* (up to the first such call the run does not depend on the stream).
RECURSIVE run_reads_rng(_, _)
run_reads_rng(s, max_instructions) ==
    /\ s.instruction_count < max_instructions
    /\ \/ reads_rng(s)
       \/ LET r == execute_one(s, 0)
          IN  r.ret /\ run_reads_rng(r.state, max_instructions)

\* The streams that are an input of run(max_instructions) from s.
RunStreams(s, max_instructions) ==
    IF run_reads_rng(s, max_instructions)
    THEN RngStreams(max_instructions)
    ELSE {[i \in 1..max_instructions |-> 0]}

\* ------------------------------------------------------------ the system
VARIABLES
    cpu,      \* the BatPU2 object
    op,       \* the last operation invoked on it
    ret,      \* what execute_one returned, when op = "step"
    warned,   \* whether run() printed its warning, when op = "run"
    budget,   \* the argument of the last run / run_program, else 0
    loads,    \* calls of load_mc() since the last reset
    fresh,    \* cpu was reached from a reset core holding its present
              \* program by step and run alone
    twin,     \* a second BatPU2 object, stepped alongside cpu by SpecPair
    same_bytes \* every read of the RNG port so far gave cpu and twin the
              \* same byte

vars == << cpu, op, ret, warned, budget, loads, fresh, twin, same_bytes >>

Init ==
    /\ cpu = InitCPU
    /\ op = "init"
    /\ ret = FALSE
    /\ warned = FALSE
    /\ budget = 0
    /\ loads = 0
    /\ fresh = TRUE
    /\ twin = InitCPU
    /\ same_bytes = TRUE

\* cpu.load_mc(file) on the core as it is.
Load ==
    \E words \in Programs :
        /\ loads < MaxLoads
        /\ loads' = loads + 1
        /\ cpu' = load_mc(cpu, words)
        /\ op' = "load"
        /\ ret' = FALSE /\ warned' = FALSE /\ budget' = 0
        /\ fresh' = (cpu' = reset(cpu'))
        /\ UNCHANGED << twin, same_bytes >>

\* cpu.execute_one()
Step ==
    /\ cpu.instruction_count < MaxCount
    /\ \E rnd \in RngChoices(cpu) :
        LET r == execute_one(cpu, rnd)
        IN  /\ cpu' = r.state
            /\ ret' = r.ret
    /\ op' = "step"
    /\ warned' = FALSE /\ budget' = 0
    /\ UNCHANGED << loads, fresh, twin, same_bytes >>

\* cpu.run(max_instructions)
Run ==
    \E max_instructions \in Budgets :
      \E stream \in RunStreams(cpu, max_instructions) :
        LET r == run(cpu, max_instructions, stream)
        IN  /\ cpu' = r.state
            /\ warned' = r.warned
            /\ budget' = max_instructions
            /\ op' = "run"
            /\ ret' = FALSE
            /\ UNCHANGED << loads, fresh, twin, same_bytes >>

\* cpu.reset()
Reset ==
    /\ cpu' = reset(cpu)
    /\ op' = "reset"
    /\ ret' = FALSE /\ warned' = FALSE /\ budget' = 0
    /\ loads' = 0
    /\ fresh' = TRUE
    /\ UNCHANGED << twin, same_bytes >>

\* POST /api/load
GuiLoad ==
    \E words \in Programs :
        /\ cpu' = gui_load_program(cpu, words)
        /\ op' = "gui_load"
        /\ ret' = FALSE /\ warned' = FALSE /\ budget' = 0
        /\ loads' = 0
        /\ fresh' = TRUE
        /\ UNCHANGED << twin, same_bytes >>

\* POST /api/step
GuiStep ==
    /\ cpu.instruction_count < MaxCount
    /\ \E rnd \in RngChoices(cpu) : cpu' = gui_step(cpu, rnd)
    /\ op' = "gui_step"
    /\ ret' = FALSE /\ warned' = FALSE /\ budget' = 0
    /\ UNCHANGED << loads, fresh, twin, same_bytes >>

\* POST /api/run
GuiRun ==
    \E max_instr \in Budgets :
      \E stream \in RngStreams(max_instr) :
        /\ cpu.instruction_count + max_instr <= MaxCount
        /\ cpu' = gui_run_program(cpu, max_instr, stream)
        /\ budget' = max_instr
        /\ op' = "gui_run"
        /\ ret' = FALSE /\ warned' = FALSE
        /\ UNCHANGED << loads, fresh, twin, same_bytes >>

\* POST /api/reset
GuiReset ==
    /\ cpu' = gui_reset(cpu)
    /\ op' = "gui_reset"
    /\ ret' = FALSE /\ warned' = FALSE /\ budget' = 0
    /\ loads' = 0
    /\ fresh' = TRUE
    /\ UNCHANGED << twin, same_bytes >>

Next ==
    \/ Load
    \/ Step
    \/ Run
    \/ Reset
    \/ GuiLoad
    \/ GuiStep
    \/ GuiRun
    \/ GuiReset

Spec == Init /\ [][Next]_vars

\* simulator.py main(): a new core, one image loaded, then the commands of
\* interactive_mode.
InitCli ==
    /\ \E words \in CliPrograms : cpu = load_mc(InitCPU, words)
    /\ op = "load"
    /\ ret = FALSE
    /\ warned = FALSE
    /\ budget = 0
    /\ loads = 1
    /\ fresh = TRUE
    /\ twin = InitCPU
    /\ same_bytes = TRUE

NextCli ==
    \/ Step
    \/ Run
    \/ Reset

SpecCli == InitCli /\ [][NextCli]_vars

\* ================================================================ claims
\* The word execute_one would fetch, when the entry test lets it through.
Executes(s) == ~s.halted /\ s.pc < Len(s.program)
Fetched(s) == decode(s.program[s.pc + 1])

\* C1: register 0 holds 0 after every step, whatever destination register
\* the executed instructions name.
R0IsZero == cpu.registers[0] = 0

\* C1 witness: the ADD r1, r1, r0 of ProgR0 has just executed (200 + 200
\* carries, its destination is r0).
R0WriteDiscarded ==
    /\ fresh
    /\ op = "step"
    /\ ret
    /\ cpu.program = ProgR0
    /\ cpu.pc = 3
    /\ cpu.carry_flag
    /\ cpu.registers[1] = 200

\* C2: for a program image of at most 1024 words, PC < 1024 after every
\* step.
PcFitsTenBits ==
    Len(cpu.program) <= MaxProgram => cpu.pc < MaxProgram

\* C3: the call stack depth is between 0 and 16 in every reachable state.
StackDepthBounded ==
    /\ Len(cpu.call_stack) >= 0
    /\ Len(cpu.call_stack) <= StackLimit

\* C3 witness: the stack is full.
StackFull == Len(cpu.call_stack) = StackLimit

\* C4: a step() on a core that is Halted or whose PC is at or beyond the
\* program length returns false and changes nothing but the Halted flag,
\* which it sets; a Halted core is left exactly as it is by step() and run().
HaltedStepRefused ==
    [][ /\ (op' = "step" /\ ~Executes(cpu))
            => /\ ret' = FALSE
               /\ cpu'.halted
               /\ cpu' = [cpu EXCEPT !.halted = TRUE]
        /\ (op' \in {"step", "run"} /\ cpu.halted)
            => cpu' = cpu
      ]_vars

\* C4 witness: a step was refused because PC ran past the end of a program
\* that had retired instructions.
StepRefusedPastEnd ==
    /\ op = "step"
    /\ ~ret
    /\ cpu.halted
    /\ cpu.program # << >>
    /\ cpu.pc >= Len(cpu.program)
    /\ cpu.instruction_count > 0

\* C5 (as claimed): what run(max_steps) is said to do: invoke step() until
\* it returns false or max_steps instructions were retired by this call.
RECURSIVE StepsUntil(_, _, _, _)
StepsUntil(s, n, stream, i) ==
    IF n = 0 THEN s
    ELSE LET r == execute_one(s, stream[i])
         IN  IF ~r.ret THEN r.state
             ELSE StepsUntil(r.state, n - 1, stream, i + 1)

\* C5: run(max_steps) on a core that is not Halted keeps invoking step()
\* until step() returns false or max_steps instructions have been retired
\* by that call (so a run that exhausted its budget can be resumed by a
\* further run with the same budget).
RunRetiresItsBudget ==
    [][ (op' = "run" /\ ~cpu.halted)
            => \E stream \in RngStreams(budget') :
                  cpu' = StepsUntil(cpu, budget', stream, 1)
      ]_vars

\* C6: run() reports "instruction budget exhausted" exactly when it stopped
\* on the budget with the core not Halted; never when it returns with the
\* core Halted.
RunWarnsOnlyIfNotHalted ==
    [][ op' = "run"
            => (warned' <=> (/\ ~cpu'.halted
                             /\ cpu'.instruction_count >= budget'))
      ]_vars

\* C7: reset() leaves the program image unchanged and puts every other part
\* of the state at its initial value.
ResetRestoresInitial ==
    [][ op' \in {"reset", "gui_reset"}
            => /\ cpu'.program = cpu.program
               /\ cpu'.pc = 0
               /\ cpu'.halted = FALSE
               /\ \A r \in 0..15 : cpu'.registers[r] = 0
               /\ \A a \in 0..255 : cpu'.memory[a] = 0
               /\ cpu'.zero_flag = FALSE
               /\ cpu'.carry_flag = FALSE
               /\ cpu'.call_stack = << >>
               /\ \A y \in 0..31 : \A x \in 0..31 : cpu'.screen[y][x] = 0
               /\ cpu'.pixel_x = 0
               /\ cpu'.pixel_y = 0
               /\ cpu'.char_buffer = << >>
               /\ cpu'.number_display = << >>
               /\ cpu'.signed_mode = FALSE
               /\ cpu'.instruction_count = 0
               /\ DOMAIN cpu' = DOMAIN cpu
      ]_vars

\* C7 witness: a core holding a program has just been reset.
ResetWithProgram ==
    /\ op = "reset"
    /\ cpu.program = ProgR0
    /\ cpu.pc = 0
    /\ ~cpu.halted

\* C8: loading a program image leaves the core Ready: PC = 0 and not Halted.
LoadLeavesReady ==
    op \in {"load", "gui_load"} => (cpu.pc = 0 /\ ~cpu.halted)

\* C9 (as claimed): run to its halt from a reset core, the program
\* CAL 3; HLT; HLT; LDI r1, 42; RET ends with r1 = 42, PC = 1, an empty call
\* stack and instruction counter = 4.
CallRetEndsWithCountFour ==
    (fresh /\ cpu.program = ProgCallRet /\ cpu.halted)
        => /\ cpu.registers[1] = 42
           /\ cpu.pc = 1
           /\ cpu.call_stack = << >>
           /\ cpu.instruction_count = 4

\* C9 (amended): the same run ends with r1 = 42, PC = 1, an empty call stack
\* and instruction counter = 3: the CAL, the LDI and the RET are counted,
\* the final HLT is not.
CallRetEndsWithCountThree ==
    (fresh /\ cpu.program = ProgCallRet /\ cpu.halted)
        => /\ cpu.registers[1] = 42
           /\ cpu.pc = 1
           /\ cpu.call_stack = << >>
           /\ cpu.instruction_count = 3

\* C9 witness: the scenario has run to its halt.
CallRetHalted ==
    /\ fresh
    /\ cpu.program = ProgCallRet
    /\ cpu.halted
    /\ cpu.registers[1] = 42

\* C10: CAL with a full stack and RET with an empty stack leave the stack
\* as it is and set PC to PC+1, the step returns true, the core is not
\* Halted and registers, flags and memory are unchanged; otherwise CAL
\* pushes PC+1 and sets PC to imm10, and RET sets PC to the most recently
\* pushed address and removes it.
SoftFaultsAdvance ==
    [][ (op' = "step" /\ Executes(cpu))
            => LET d     == Fetched(cpu)
                   depth == Len(cpu.call_stack)
                   skip  == [cpu EXCEPT !.pc = cpu.pc + 1,
                                        !.instruction_count = @ + 1]
               IN  /\ (d.opcode = 12 /\ depth = 16)
                        => (cpu' = skip /\ ret' = TRUE /\ ~cpu'.halted)
                   /\ (d.opcode = 13 /\ depth = 0)
                        => (cpu' = skip /\ ret' = TRUE /\ ~cpu'.halted)
                   /\ (d.opcode = 12 /\ depth < 16)
                        => /\ cpu'.call_stack
                                = Append(cpu.call_stack, cpu.pc + 1)
                           /\ cpu'.pc = d.imm10
                           /\ ret' = TRUE
                   /\ (d.opcode = 13 /\ depth > 0)
                        => /\ cpu'.pc = cpu.call_stack[depth]
                           /\ cpu'.call_stack
                                = SubSeq(cpu.call_stack, 1, depth - 1)
                           /\ ret' = TRUE
      ]_vars

\* C10 witness: the 17th CAL of ProgRecurse found the stack full and fell
\* through to the next word.
CallOverflowSkipped ==
    /\ fresh
    /\ op = "step"
    /\ ret
    /\ cpu.program = ProgRecurse
    /\ Len(cpu.call_stack) = StackLimit
    /\ cpu.pc = 1
    /\ cpu.instruction_count = StackLimit + 1
    /\ ~cpu.halted

\* ------------------------------------------- claims on single instructions
\* A step of the command line's core that executes the word at PC.
StepExecutes == op' = "step" /\ Executes(cpu)
\* PC and instruction counter as the tail of a step leaves them.
Advanced(s) == [s EXCEPT !.pc = @ + 1, !.instruction_count = @ + 1]

\* C11: a step executing LDI, JMP, BRH, CAL, RET, LOD, STR, NOP or HLT
\* leaves both flags as they were, and a step executing NOR, AND or XOR
\* leaves Carry as it was: only ADD, SUB, RSH and ADI may change Carry, and
\* only these and NOR, AND, XOR may change Zero.
FlagsChangeOnlyByAlu ==
    [][ StepExecutes
            => LET d == Fetched(cpu)
               IN  /\ d.opcode \in {0, 1, 8, 10, 11, 12, 13, 14, 15}
                        => /\ cpu'.zero_flag = cpu.zero_flag
                           /\ cpu'.carry_flag = cpu.carry_flag
                   /\ d.opcode \in {4, 5, 6}
                        => cpu'.carry_flag = cpu.carry_flag
      ]_vars

\* C11 witness: with Zero and Carry both set (1 + 255), a STR to port 0 has
\* executed and both are still set.
FlagsKeptByPortWrite ==
    /\ op = "step"
    /\ cpu.program = FlagThen(1, 255, STR(5, 2, -8))
    /\ cpu.pc = 5
    /\ cpu.pixel_x = 255
    /\ cpu.zero_flag
    /\ cpu.carry_flag

\* C12: SUB Ra, Rb, Rc sets C iff Ra >= Rb, sets Z iff (Ra - Rb) mod 256 = 0
\* and writes (Ra - Rb) mod 256 to Rc unless Rc is r0, in which case no
\* register changes.
SubSetsCarryIffNoBorrow ==
    [][ (StepExecutes /\ Fetched(cpu).opcode = 3)
            => LET d    == Fetched(cpu)
                   ra   == cpu.registers[d.reg_a]
                   rb   == cpu.registers[d.reg_b]
                   diff == (ra - rb + 256) % 256
               IN  /\ cpu'.carry_flag = (ra >= rb)
                   /\ cpu'.zero_flag = (diff = 0)
                   /\ cpu'.registers =
                        IF d.reg_c # 0
                        THEN [cpu.registers EXCEPT ![d.reg_c] = diff]
                        ELSE cpu.registers
      ]_vars

\* C12 witness: SUB r1, r2, r0 with 1 < 255 has executed: a borrow, a
\* non-zero difference, no register written.
SubBorrowIntoR0 ==
    /\ op = "step"
    /\ cpu.program = FlagThen(1, 255, SUB(1, 2, 0))
    /\ cpu.pc = 5
    /\ ~cpu.carry_flag
    /\ ~cpu.zero_flag
    /\ cpu.registers[0] = 0
    /\ cpu.registers[4] = 0

\* C13: whenever the number display holds a value, the value lies in
\* [-128, 127] if signed mode is set and in [0, 255] if it is clear.
NumberDisplayInModeRange ==
    cpu.number_display # << >>
        => IF cpu.signed_mode
           THEN cpu.number_display[1] \in -128..127
           ELSE cpu.number_display[1] \in 0..255

\* C14: a STR to an address in [240, 256) leaves memory cells [0, 240)
\* unchanged; a STR to an address below 240 changes that one memory cell and
\* nothing else but PC and the instruction counter.
StoreRoutesByAddress ==
    [][ (StepExecutes /\ Fetched(cpu).opcode = 15)
            => LET d     == Fetched(cpu)
                   addr  == (cpu.registers[d.reg_a] + d.offset + 256) % 256
                   value == cpu.registers[d.reg_b]
               IN  /\ addr >= 240
                        => \A i \in 0..239 : cpu'.memory[i] = cpu.memory[i]
                   /\ addr < 240
                        => cpu' = Advanced([cpu EXCEPT !.memory[addr] = value])
      ]_vars

\* C14 witness: a STR below 240 has stored 255 at address 6 (255 + 7 wraps).
StoredInRam ==
    /\ op = "step"
    /\ cpu.program = StoreLoad(255, 255, 7)
    /\ cpu.pc = 3
    /\ cpu.memory[6] = 255
    /\ cpu.char_buffer = << >>

\* C15: NOP at PC = k with k + 1 < program length sets PC to k + 1, adds 1
\* to the instruction counter, returns true and changes nothing else.
NopOnlyAdvances ==
    [][ (/\ StepExecutes
         /\ Fetched(cpu).opcode = 0
         /\ cpu.pc + 1 < Len(cpu.program))
            => (cpu' = Advanced(cpu) /\ ret' = TRUE)
      ]_vars

\* C15 witness: the NOP at word 4 has executed with both flags set.
NopExecuted ==
    /\ op = "step"
    /\ ret
    /\ cpu.program = FlagThen(1, 255, NOP)
    /\ cpu.pc = 5
    /\ cpu.zero_flag
    /\ cpu.carry_flag
    /\ cpu.instruction_count = 5

\* The word at PC, and the fields of a LOD/STR word read from the word itself.
Word(s) == s.program[s.pc + 1]
SignedOffset(w) == IF w % 16 >= 8 THEN (w % 16) - 16 ELSE w % 16
\* Effective address of STR (base Ra) and of LOD (base Rb), modulo 256.
StrAddress(s) ==
    (s.registers[(Word(s) \div 256) % 16] + SignedOffset(Word(s)) + 256) % 256
LodAddress(s) ==
    (s.registers[(Word(s) \div 16) % 16] + SignedOffset(Word(s)) + 256) % 256
IsStore(s) == Word(s) \div 4096 = 15
IsLoad(s) == Word(s) \div 4096 = 14

\* C17, as stated: the framebuffer cursor (x, y) lies in [0,32) x [0,32).
CursorInGrid ==
    /\ cpu.pixel_x \in 0..(ScreenSize - 1)
    /\ cpu.pixel_y \in 0..(ScreenSize - 1)

\* C17, amended: the cursor (x, y) lies in [0,256) x [0,256); a write of the
\* byte v to pixel_x (port 0) or pixel_y (port 1) stores v itself.
CursorIsWrittenByte ==
    [][ /\ cpu'.pixel_x \in 0..255
        /\ cpu'.pixel_y \in 0..255
        /\ (StepExecutes /\ IsStore(cpu))
              => LET value == cpu.registers[(Word(cpu) \div 16) % 16]
                 IN  /\ StrAddress(cpu) = 240
                          => (cpu'.pixel_x = value /\ cpu'.pixel_y = cpu.pixel_y)
                     /\ StrAddress(cpu) = 241
                          => (cpu'.pixel_y = value /\ cpu'.pixel_x = cpu.pixel_x)
      ]_vars

\* C17 witness: 255 and 32 have been written to pixel_x and pixel_y.
CursorOutsideGrid ==
    /\ op = "step"
    /\ cpu.program = PixelProg(255, 32)
    /\ cpu.pc = 5
    /\ cpu.pixel_x = 255
    /\ cpu.pixel_y = 32

\* C18: BRH at PC = k sets PC to imm10 iff (cond = 0 and Z) or (cond = 1 and
\* not Z) or (cond = 2 and C) or (cond = 3 and not C), to k + 1 otherwise,
\* and changes nothing else but the instruction counter.
BranchFollowsFlags ==
    [][ (StepExecutes /\ Word(cpu) \div 4096 = 11)
            => LET cond  == (Word(cpu) \div 1024) % 4
                   taken == \/ (cond = 0 /\ cpu.zero_flag)
                            \/ (cond = 1 /\ ~cpu.zero_flag)
                            \/ (cond = 2 /\ cpu.carry_flag)
                            \/ (cond = 3 /\ ~cpu.carry_flag)
               IN  cpu' = [cpu EXCEPT
                             !.pc = IF taken THEN Word(cpu) % 1024 ELSE @ + 1,
                             !.instruction_count = @ + 1]
      ]_vars

\* C18 witness: the branch-if-zero program has halted through its taken
\* branch (r5 = 77, r4 = 0).
BranchIfZeroTaken ==
    /\ cpu.program = ProgBranchIfZero
    /\ cpu.halted
    /\ cpu.pc = 7
    /\ cpu.registers[5] = 77
    /\ cpu.registers[4] = 0
    /\ cpu.zero_flag

\* C19: STR Ra, Rb, off stores Rb at (Ra + off) mod 256 and LOD Ra, Rb, off
\* loads Ra from (Rb + off) mod 256, off sign-extended to [-8, 7], addresses
\* from 240 going to the ports; a store below 240 followed by a load of the
\* same address into r3 yields the stored byte.
LoadStoreAddress ==
    [][ /\ (StepExecutes /\ IsStore(cpu))
              => LET value == cpu.registers[(Word(cpu) \div 16) % 16]
                     addr  == StrAddress(cpu)
                 IN  cpu' = Advanced(IF addr < 240
                                     THEN [cpu EXCEPT !.memory[addr] = value]
                                     ELSE write_port(cpu, addr, value))
        /\ (StepExecutes /\ IsLoad(cpu))
              => LET ra   == (Word(cpu) \div 256) % 16
                     addr == LodAddress(cpu)
                 IN  \E rnd \in RngBytes :
                        cpu' = Advanced(write_reg(cpu, ra,
                                   IF addr < 240 THEN cpu.memory[addr]
                                   ELSE read_port(cpu, addr, rnd)))
        /\ (/\ cpu'.halted
            /\ Len(cpu'.program) = 5
            /\ cpu'.program[3] \div 4096 = 15
            /\ cpu'.program[4] \div 4096 = 14)
              => LET addr == (cpu'.registers[1]
                                + SignedOffset(cpu'.program[3]) + 256) % 256
                 IN  addr < 240
                        => /\ cpu'.memory[addr] = cpu'.registers[2]
                           /\ cpu'.registers[3] = cpu'.registers[2]
      ]_vars

\* C19 witness: 255 stored at 255 + 7 = 6 (mod 256) has been loaded back.
StoredByteLoadedBack ==
    /\ cpu.program = StoreLoad(255, 255, 7)
    /\ cpu.halted
    /\ cpu.memory[6] = 255
    /\ cpu.registers[3] = 255

\* C20: with the cursor at (x, y), a write to draw_pixel (port 2) sets
\* exactly cell [y mod 32][x mod 32] to 1 and a write to clear_pixel (port 3)
\* sets exactly that cell to 0, whatever value is written; a read of
\* load_pixel (port 4) returns that cell, so 1 after draw and 0 after clear;
\* every cell is 0 or 1.
PixelPortsAddressCursorCell ==
    [][ /\ cpu'.screen # cpu.screen
              => \A y \in 0..(ScreenSize - 1), x \in 0..(ScreenSize - 1) :
                    cpu'.screen[y][x] \in {0, 1}
        /\ (StepExecutes /\ IsStore(cpu) /\ StrAddress(cpu) \in {242, 243})
              => cpu' = Advanced([cpu EXCEPT
                          !.screen[cpu.pixel_y % 32][cpu.pixel_x % 32] =
                              IF StrAddress(cpu) = 242 THEN 1 ELSE 0])
        /\ (/\ StepExecutes
            /\ IsLoad(cpu)
            /\ LodAddress(cpu) = 244
            /\ (Word(cpu) \div 256) % 16 # 0)
              => cpu'.registers[(Word(cpu) \div 256) % 16] =
                    cpu.screen[cpu.pixel_y % 32][cpu.pixel_x % 32]
        /\ (cpu'.halted /\ Len(cpu'.program) = Len(PixelProg(0, 0)))
              => (cpu'.registers[3] = 1 /\ cpu'.registers[4] = 0)
      ]_vars

\* C20 witness: with the cursor at (255, 32), cell [0][31] was drawn, read
\* as 1, cleared and read as 0, while the cell [0][0] drawn in between
\* stays set.
PixelDrawnReadCleared ==
    /\ cpu.program = PixelProg(255, 32)
    /\ cpu.halted
    /\ cpu.registers[3] = 1
    /\ cpu.registers[4] = 0
    /\ cpu.screen[0][31] = 0
    /\ cpu.screen[0][0] = 1

\* ------------------------------------------------- two cores side by side
\* execute_one is about to read the RNG port: a LOD of address 254.
ReadsPort14(s) == Executes(s) /\ IsLoad(s) /\ LodAddress(s) = 254

\* Two new cores, the same image loaded into both.
InitPair ==
    /\ \E words \in CliPrograms :
          /\ cpu = load_mc(InitCPU, words)
          /\ twin = load_mc(InitCPU, words)
    /\ same_bytes = TRUE
    /\ op = "load"
    /\ ret = FALSE
    /\ warned = FALSE
    /\ budget = 0
    /\ loads = 1
    /\ fresh = TRUE

\* execute_one() on both cores; random.randint gives each its own byte.
PairStep ==
    /\ cpu.instruction_count < MaxCount
    /\ \E r1 \in RngBytes, r2 \in RngBytes :
          /\ cpu' = execute_one(cpu, r1).state
          /\ twin' = execute_one(twin, r2).state
          /\ ret' = execute_one(cpu, r1).ret
          /\ same_bytes' =
                (same_bytes
                    /\ ~((ReadsPort14(cpu) \/ ReadsPort14(twin)) /\ r1 # r2))
    /\ op' = "step"
    /\ warned' = FALSE /\ budget' = 0
    /\ UNCHANGED << loads, fresh >>

\* reset() on both cores.
PairReset ==
    /\ cpu' = reset(cpu)
    /\ twin' = reset(twin)
    /\ same_bytes' = TRUE
    /\ op' = "reset"
    /\ ret' = FALSE /\ warned' = FALSE /\ budget' = 0
    /\ loads' = 0
    /\ fresh' = TRUE

NextPair ==
    \/ PairStep
    \/ PairReset

SpecPair == InitPair /\ [][NextPair]_vars

\* C16: two cores holding the same program, started from reset and stepped
\* the same number of times, are in identical states (PC, registers, flags,
\* memory, call stack, devices, counter, Halted) as long as no step read the
\* RNG port or every read of it gave both cores the same byte.
TwinsAgree == same_bytes => cpu = twin

\* C16 witness: both cores have read 255 from the RNG port into r4.
TwinsReadSameByte ==
    /\ same_bytes
    /\ op = "step"
    /\ cpu.program = FlagThen(1, 255, LOD(4, 5, 6))
    /\ cpu.pc = 5
    /\ cpu.registers[4] = 255
    /\ twin.registers[4] = 255

\* ------------------------------------------------------ claims on ports
\* C21: a STR to port 4, 5, 6, 8, 9, 14 or 15 changes nothing but PC and the
\* instruction counter; a LOD from any port other than 4 and 14 puts 0 in
\* its destination (unless that is r0) and changes nothing else but PC and
\* the instruction counter.
UndefinedPortsInert ==
    [][ /\ (/\ StepExecutes
            /\ IsStore(cpu)
            /\ StrAddress(cpu) \in {244, 245, 246, 248, 249, 254, 255})
              => cpu' = Advanced(cpu)
        /\ (/\ StepExecutes
            /\ IsLoad(cpu)
            /\ LodAddress(cpu) >= 240
            /\ LodAddress(cpu) \notin {244, 254})
              => LET ra == (Word(cpu) \div 256) % 16
                 IN  cpu' = Advanced(IF ra # 0
                                     THEN [cpu EXCEPT !.registers[ra] = 0]
                                     ELSE cpu)
      ]_vars

\* C21 witness: a LOD from the write-only port 7 has replaced the 255 in r2
\* by 0 and appended nothing to the character buffer.
WriteOnlyPortReadAsZero ==
    /\ op = "step"
    /\ cpu.program = FlagThen(1, 255, LOD(2, 5, -1))
    /\ cpu.pc = 5
    /\ cpu.registers[2] = 0
    /\ cpu.registers[3] = 0
    /\ cpu.char_buffer = << >>

\* The character write_char appends for the byte v, as a code point.
ExpectedChar(v) ==
    IF v = 0 THEN 32
    ELSE IF v \in 1..26 THEN 96 + v
    ELSE IF v = 27 THEN 46
    ELSE IF v = 28 THEN 33
    ELSE IF v = 29 THEN 63
    ELSE IF v \in 32..126 THEN v
    ELSE 63

\* C22: between resets the character buffer only grows (the old contents
\* stay a prefix); a step extends it by exactly one character when it is a
\* STR to port 7 and leaves it unchanged otherwise; the character for value
\* v is entry v of [' ', 'a'..'z', '.', '!', '?'] for v in 0..29, the ASCII
\* character v for v in 32..126 and '?' for every other byte.
CharBufferAppendOnly ==
    [][ /\ op' # "reset"
              => /\ Len(cpu'.char_buffer) >= Len(cpu.char_buffer)
                 /\ SubSeq(cpu'.char_buffer, 1, Len(cpu.char_buffer))
                        = cpu.char_buffer
        /\ op' = "step"
              => cpu'.char_buffer =
                    IF Executes(cpu) /\ IsStore(cpu) /\ StrAddress(cpu) = 247
                    THEN Append(cpu.char_buffer,
                                ExpectedChar(
                                    cpu.registers[(Word(cpu) \div 16) % 16]))
                    ELSE cpu.char_buffer
      ]_vars

\* C22 witness: the program writing 8, 5, 12, 12, 15 to port 7 has halted
\* with "hello" in the character buffer.
HelloWritten ==
    /\ cpu.program = ProgHello
    /\ cpu.halted
    /\ cpu.char_buffer = << 104, 101, 108, 108, 111 >>

\* ---------------------------------------------------- ADD then ADI Rc, 0
\* The word at PC is ADI Rc, 0 and the word before it is ADD Ra, Rb, Rc with
\* Rc not r0. No image of CliPrograms transfers control to such an ADI, so
\* the ADD is the instruction executed last.
AdiZeroFollowsAdd(s) ==
    /\ Executes(s)
    /\ s.pc >= 1
    /\ Word(s) \div 4096 = 9
    /\ Word(s) % 256 = 0
    /\ s.program[s.pc] \div 4096 = 2
    /\ s.program[s.pc] % 16 = (Word(s) \div 256) % 16
    /\ s.program[s.pc] % 16 # 0

\* C23, as stated: ADI Rc, 0 right after ADD Ra, Rb, Rc leaves every
\* register and both flags as the ADD left them.
AdiZeroAfterAddIsNoOp ==
    [][ (op' = "step" /\ AdiZeroFollowsAdd(cpu))
            => /\ cpu'.registers = cpu.registers
               /\ cpu'.zero_flag = cpu.zero_flag
               /\ cpu'.carry_flag = cpu.carry_flag
      ]_vars

\* C23, amended: ADI Rc, 0 right after ADD Ra, Rb, Rc leaves every register
\* and the Z flag as the ADD left them and leaves C clear.
AdiZeroAfterAddClearsCarry ==
    [][ (op' = "step" /\ AdiZeroFollowsAdd(cpu))
            => /\ cpu'.registers = cpu.registers
               /\ cpu'.zero_flag = cpu.zero_flag
               /\ cpu'.carry_flag = FALSE
      ]_vars

\* C23 witness: after ADD r1, r2, r3 with 1 + 255 (Z and C set), ADI r3, 0
\* has executed: r3 = 0, Z still set, C clear.
CarryClearedByAdiZero ==
    /\ op = "step"
    /\ cpu.program = FlagThen(1, 255, ADI(3, 0))
    /\ cpu.pc = 5
    /\ cpu.registers[3] = 0
    /\ cpu.zero_flag
    /\ ~cpu.carry_flag

====
